---- MODULE Spec2Model ----
(***************************************************************************)
(* A model of pias: the EdgeLabelCache (edge_labels.py), the Workflow and  *)
(* its State (workflow.py) and the request handlers of the SolverServer    *)
(* (solver_server.py).                                                     *)
(*                                                                         *)
(* Python values are modelled as follows.                                  *)
(*   - None, dict and numpy.ndarray objects are tagged records (PyNone,    *)
(*     Dict, Ndarray), so that a variable may hold any of them.            *)
(*   - an int that may be None is an integer, with NoneInt for None.       *)
(*   - a float is held in half units (the integer 2*x for the float x), so *)
(*     1.0 is 2 and 0.5 is 1; the keys of edge_label_map are held the same *)
(*     way, because the dict keys 1 and 1.0 are one key in Python.         *)
(***************************************************************************)
EXTENDS Integers, Sequences, FiniteSets, TLC

VARIABLES
    \* EdgeLabelCache
    edge_label_map,          \* EdgeLabelCache.edge_label_map: key -> label
    edge_index_mapping,      \* EdgeLabelCache.edge_index_mapping
    cache_lock,              \* EdgeLabelCache.lock: the thread holding it, or "free"
    cache_ret,               \* what the last direct call on the cache returned or raised
    numpy_strict,            \* the numpy build: TRUE when == raises on shapes that do not broadcast
    \* Workflow
    edge_feature_cache,      \* what Workflow.edge_feature_cache holds
    lock,                    \* Workflow.lock: the thread holding it, or "free"
    latest_state,            \* Workflow.latest_state
    latest_successful_state, \* Workflow.latest_successful_state
    _is_running,             \* Workflow._is_running
    update_queue,            \* Workflow.update_queue: the queued tasks, oldest first
    state_update_notify,     \* Workflow.state_update_notify: the listeners
    worker_pc,               \* where the update_worker thread is in _execute_updates
    tasks,                   \* one record per call of request_update_state, in the order of the puts
    labels_call,             \* the call of request_set_edge_labels in progress
    edges_pc,                \* where the call of request_update_edges in progress is
    stop_pc,                 \* where the call of stop is
    \* SolverServer
    server,                  \* TRUE when the workflow is the one of a SolverServer
    reply,                   \* the last reply the server sent, on whichever channel
    notifier_queue,          \* solution_notifier_socket.queue: the pairs handed to the publisher
    listener_calls           \* the calls of listeners that returned, oldest first

cache_vars == <<edge_label_map, edge_index_mapping, cache_lock, cache_ret>>
workflow_vars == <<edge_feature_cache, lock, latest_state, latest_successful_state,
                   _is_running, update_queue, state_update_notify, worker_pc, tasks,
                   labels_call, edges_pc, stop_pc>>
workflow_vars_but_labels_call ==
    <<edge_feature_cache, lock, latest_state, latest_successful_state, _is_running,
      update_queue, state_update_notify, worker_pc, tasks, edges_pc, stop_pc>>
server_vars == <<server, reply, notifier_queue, listener_calls>>
vars == <<cache_vars, numpy_strict, workflow_vars, server_vars>>

----------------------------------------------------------------------------
(* Bounds of the model *)

MaxPairs == 2        \* the (edge, label) pairs of one submission
MaxRequests == 2     \* the calls of request_update_state
MaxListeners == 2    \* the listeners registered

----------------------------------------------------------------------------
(* Python values *)

PyNone == [kind |-> "None"]
Dict(m) == [kind |-> "dict", map |-> m]
Ndarray(rows, ncols) == [kind |-> "ndarray", rows |-> rows, ncols |-> ncols]
NoneInt == 0 - 1
Float(i) == 2 * i
AsUint64(h) == h \div 2
EmptyMap == [k \in {} |-> 0]
Min(a, b) == IF a < b THEN a ELSE b

RECURSIVE SortedSeq(_)
SortedSeq(S) ==
    IF S = {} THEN <<>>
    ELSE LET m == CHOOSE x \in S : \A y \in S : x <= y
         IN  <<m>> \o SortedSeq(S \ {m})

----------------------------------------------------------------------------
(* The contents the storage may hold, as the EdgeFeatureCache presents them *)

EdgeIndexMappingOf(edges) ==
    Dict([e \in {edges[i] : i \in 1..Len(edges)} |->
            (CHOOSE i \in 1..Len(edges) : edges[i] = e) - 1])

Dataset(edges, rows, ncols) ==
    [edges              |-> edges,
     edge_features      |-> Ndarray(rows, ncols),
     edge_index_mapping |-> EdgeIndexMappingOf(edges),
     graph              |-> [kind |-> "graph", uv_ids |-> edges]]

DatasetA == Dataset(<< <<0, 1>>, <<1, 2>> >>, << <<1, 2, 1>>, <<1, 0, 1>> >>, 3)
DatasetB == Dataset(<< <<1, 2>>, <<0, 2>>, <<0, 1>> >>, << <<0, 2>>, <<2, 1>>, <<3, 4>> >>, 2)
Datasets == {DatasetA, DatasetB}

\* what a read of the storage may find once `cache` was read from it: the
\* storage is rewritten from DatasetA to DatasetB, never back
ReadableAfter(cache) == IF cache = DatasetB THEN {DatasetB} ELSE Datasets

get_edges_and_features(cache) ==
    <<cache.edges, cache.edge_features, cache.edge_index_mapping, cache.graph>>

----------------------------------------------------------------------------
(* EdgeLabelCache *)

\* `e in mapping`: "True", "False" or the exception raised
contains(mapping, e, strict) ==
    IF mapping.kind = "dict"
    THEN IF e \in DOMAIN mapping.map THEN "True" ELSE "False"
    ELSE \* ndarray.__contains__ is (mapping == e).any()
         IF mapping.ncols \notin {1, Len(e)}
         THEN IF strict THEN "ValueError" ELSE "False"
         ELSE IF \E r \in 1..Len(mapping.rows), c \in 1..Len(e) :
                    mapping.rows[r][IF mapping.ncols = 1 THEN 1 ELSE c] = Float(e[c])
              THEN "True" ELSE "False"

\* `mapping[e]`: the key under which the label is stored, or NoneInt when it raises
getitem(mapping, e) ==
    IF mapping.kind = "dict"
    THEN IF e \in DOMAIN mapping.map THEN Float(mapping.map[e]) ELSE NoneInt
    ELSE IF e[1] < Len(mapping.rows) /\ e[2] < mapping.ncols
         THEN mapping.rows[e[1] + 1][e[2] + 1]
         ELSE NoneInt

SetItem(m, k, v) == [x \in DOMAIN m \cup {k} |-> IF x = k THEN v ELSE m[x]]

\* update_label without the `if e not in self.edge_index_mapping: continue`
update_label_unchecked(mapping, label_map, e, l, strict) ==
    LET index == getitem(mapping, e)
    IN  IF index = NoneInt
        THEN [map |-> label_map,
              exc |-> IF mapping.kind = "dict" THEN "KeyError" ELSE "IndexError",
              skipped |-> 0]
        ELSE [map |-> SetItem(label_map, index, l), exc |-> "None", skipped |-> 0]

\* one pass of the loop body of update_labels
\* (skipped: whether it ended in `continue`)
update_label(mapping, label_map, e, l, strict) ==
    LET c == contains(mapping, e, strict)
    IN  IF c = "False" THEN [map |-> label_map, exc |-> "None", skipped |-> 1]
        ELSE IF c # "True" THEN [map |-> label_map, exc |-> c, skipped |-> 0]
        ELSE LET index == getitem(mapping, e)
             IN  IF index = NoneInt
                 THEN [map |-> label_map, exc |-> "IndexError", skipped |-> 0]
                 ELSE [map |-> SetItem(label_map, index, l), exc |-> "None",
                       skipped |-> 0]

RECURSIVE update_labels_loop(_, _, _, _, _, _)
update_labels_loop(mapping, label_map, edges, labels, k, strict) ==
    IF k > Min(Len(edges), Len(labels))
    THEN [map |-> label_map, exc |-> "None", skipped |-> 0]
    ELSE LET r == update_label(mapping, label_map, edges[k], labels[k], strict)
         IN  IF r.exc # "None" THEN r
             ELSE LET rest == update_labels_loop(mapping, r.map, edges, labels,
                                                 k + 1, strict)
                  IN  [rest EXCEPT !.skipped = @ + r.skipped]

\* update_labels(edges, labels): the label map after it, the exception it raises,
\* and how many passes of its loop ended in `continue`
update_labels(mapping, label_map, edges, labels, strict) ==
    IF mapping.kind = "None"
    THEN [map |-> label_map, exc |-> "None", skipped |-> 0]
    ELSE update_labels_loop(mapping, label_map, edges, labels, 1, strict)

\* The keys are listed in ascending order here; Python lists them in the order
\* of insertion.  Both arrays follow the same order, which is all a consumer
\* of the pairing can see.
get_sample_and_label_arrays(label_map, samples) ==
    LET keys         == SortedSeq(DOMAIN label_map)
        edge_indices == [i \in 1..Len(keys) |-> AsUint64(keys[i])]
        labels       == [i \in 1..Len(keys) |-> label_map[keys[i]]]
    IN  IF \E i \in 1..Len(keys) : edge_indices[i] >= Len(samples.rows)
        THEN [exc |-> "IndexError", samples |-> <<>>, labels |-> <<>>]
        ELSE [exc     |-> "None",
              samples |-> [i \in 1..Len(keys) |-> samples.rows[edge_indices[i] + 1]],
              labels  |-> labels]

update_edge_index_mapping(mapping) == mapping

----------------------------------------------------------------------------
(* State *)

SUCCESS == 0
NO_LABEL_FOR_SOME_CLASSES == 1
RANDOM_FOREST_TRAINING_FAILED == 2
MC_OPTIMIZATION_FAILED == 3

Range(f) == {f[x] : x \in DOMAIN f}

State(edges, edge_features, graph, labeled_samples) ==
    [kind            |-> "State",
     edges           |-> edges,
     edge_features   |-> edge_features,
     graph           |-> graph,
     labeled_samples |-> labeled_samples,
     solution_state  |-> NoneInt,
     solution        |-> PyNone]

\* RandomForestModelCache(labels=(0, 1)).train_model raises unless the labels
\* hold both classes
train_model_raises(samples, labels) == ~({0, 1} \subseteq Range(labels))

\* MulticutAgglomeration.optimize on the weights the trained forest predicts
optimize(graph, samples, labels) ==
    [kind |-> "ndarray", of |-> graph.uv_ids, samples |-> samples, labels |-> labels]

\* compute without the `return` of the first `except`: a failure of the
\* training is passed over and the optimizer runs
compute_train_unchecked(self, optimize_raises) ==
    IF optimize_raises
    THEN [exit_code |-> MC_OPTIMIZATION_FAILED, self |-> self]
    ELSE [exit_code |-> SUCCESS,
          self      |-> [self EXCEPT !.solution =
                            optimize(self.graph, self.labeled_samples.samples,
                                     self.labeled_samples.labels)]]

\* optimize_raises: whether predict or optimize raises on these inputs
compute(self, optimize_raises) ==
    LET samples == self.labeled_samples.samples
        labels  == self.labeled_samples.labels
    IN  IF train_model_raises(samples, labels)
        THEN [exit_code |-> RANDOM_FOREST_TRAINING_FAILED, self |-> self]
        ELSE IF optimize_raises
        THEN [exit_code |-> MC_OPTIMIZATION_FAILED, self |-> self]
        ELSE [exit_code |-> SUCCESS,
              self      |-> [self EXCEPT !.solution = optimize(self.graph, samples, labels)]]

----------------------------------------------------------------------------
(* Workflow *)

Init ==
    /\ edge_label_map = EmptyMap
    /\ cache_lock = "free"
    /\ cache_ret = [op |-> "init"]
    /\ numpy_strict \in BOOLEAN
    /\ lock = "free"
    /\ state_update_notify \in {<<>>, <<"server_lambda">>}
    /\ server = (state_update_notify # <<>>)
    \* _update_edges()
    /\ edge_feature_cache \in Datasets
    /\ edge_index_mapping =
           update_edge_index_mapping(get_edges_and_features(edge_feature_cache)[2])
    /\ latest_state = PyNone
    /\ latest_successful_state = PyNone
    /\ _is_running = TRUE
    /\ update_queue = <<>>
    /\ worker_pc = "while"
    /\ tasks = <<>>
    /\ labels_call = [pc |-> "idle"]
    /\ edges_pc = "idle"
    /\ stop_pc = "idle"
    /\ reply = [channel |-> "none"]
    /\ notifier_queue = <<>>
    /\ listener_calls = <<>>

LockFree == lock = "free" /\ cache_lock = "free"

\* a loop `while True` in the place of `while self._is_running`
WorkerWhileTrue ==
    /\ worker_pc = "while"
    /\ worker_pc' = "get"
    /\ UNCHANGED <<cache_vars, numpy_strict, edge_feature_cache, lock, latest_state,
                   latest_successful_state, _is_running, update_queue,
                   state_update_notify, tasks, labels_call, edges_pc, stop_pc,
                   server_vars>>

\* _execute_updates: `while self._is_running`
WorkerWhile ==
    /\ worker_pc = "while"
    /\ worker_pc' = IF _is_running THEN "get" ELSE "exit"
    /\ UNCHANGED <<cache_vars, numpy_strict, edge_feature_cache, lock, latest_state,
                   latest_successful_state, _is_running, update_queue,
                   state_update_notify, tasks, labels_call, edges_pc, stop_pc,
                   server_vars>>

\* a worker that takes the next task without waiting for next_task() to return
WorkerReadyWhileBusy == worker_pc \in {"get", "task"}

WorkerReady == worker_pc = "get"

\* a queue.LifoQueue in the place of the queue.Queue
queue_get_lifo(queue) ==
    [task |-> queue[Len(queue)], queue |-> SubSeq(queue, 1, Len(queue) - 1)]

\* update_queue.get(): the task it returns and what the queue holds after it
queue_get(queue) == [task |-> Head(queue), queue |-> Tail(queue)]

\* _execute_updates: update_queue.get(timeout=...), then next_task() or queue.Empty
WorkerGet ==
    /\ WorkerReady
    /\ IF update_queue # <<>>
       THEN /\ tasks' = [tasks EXCEPT ![queue_get(update_queue).task].pc = "snapshot"]
            /\ update_queue' = queue_get(update_queue).queue
            /\ worker_pc' = "task"
       ELSE /\ worker_pc' = "while"
            /\ UNCHANGED <<tasks, update_queue>>
    /\ UNCHANGED <<cache_vars, numpy_strict, edge_feature_cache, lock, latest_state,
                   latest_successful_state, _is_running, state_update_notify,
                   labels_call, edges_pc, stop_pc, server_vars>>

\* request_update_state: what the queue holds after the put, and what is returned
request_update_state(queue, task) == [queue |-> Append(queue, task), ret |-> NoneInt]

\* a task: where the call of _update_state is (pc), its locals state, exit_code
\* and the index i of the listener it is at, and what request_update_state
\* returned to the thread that queued it
NewTask(returned) ==
    [pc |-> "queued", state |-> PyNone, exit_code |-> NoneInt, i |-> 0,
     returned |-> returned]

\* Workflow.request_update_state() called by a user of the Workflow
RequestUpdateState ==
    /\ ~server
    /\ Len(tasks) < MaxRequests
    /\ LET r == request_update_state(update_queue, Len(tasks) + 1)
       IN  /\ update_queue' = r.queue
           /\ tasks' = Append(tasks, NewTask(r.ret))
    /\ UNCHANGED <<cache_vars, numpy_strict, edge_feature_cache, lock, latest_state,
                   latest_successful_state, _is_running, state_update_notify,
                   worker_pc, labels_call, edges_pc, stop_pc, server_vars>>

\* _update_state without its first `with self.lock`: the feature cache is read
\* whoever holds the lock
TaskSnapshotFeaturesUnlocked(t) ==
    /\ tasks[t].pc = "snapshot"
    /\ LET f == get_edges_and_features(edge_feature_cache)
       IN  tasks' = [tasks EXCEPT ![t].pc = "snapshot_labels",
                                  ![t].state = State(f[1], f[2], f[4], PyNone)]
    /\ UNCHANGED <<cache_vars, numpy_strict, edge_feature_cache, lock, latest_state,
                   latest_successful_state, _is_running, update_queue,
                   state_update_notify, worker_pc, labels_call, edges_pc, stop_pc,
                   server_vars>>

\* _update_state: `with self.lock`, get_edges_and_features()
TaskSnapshotFeatures(t) ==
    /\ tasks[t].pc = "snapshot"
    /\ LockFree
    /\ lock' = "worker"
    /\ LET f == get_edges_and_features(edge_feature_cache)
       IN  tasks' = [tasks EXCEPT ![t].pc = "snapshot_labels",
                                  ![t].state = State(f[1], f[2], f[4], PyNone)]
    /\ UNCHANGED <<cache_vars, numpy_strict, edge_feature_cache, latest_state,
                   latest_successful_state, _is_running, update_queue,
                   state_update_notify, worker_pc, labels_call, edges_pc, stop_pc,
                   server_vars>>

\* _update_state with `exit_code = state.compute()` inside the first `with`:
\* the snapshot is taken and the lock is kept
TaskSnapshotLabelsLocked(t) ==
    /\ tasks[t].pc = "snapshot_labels"
    /\ LET r == get_sample_and_label_arrays(edge_label_map, tasks[t].state.edge_features)
       IN  IF r.exc # "None"
           THEN /\ tasks' = [tasks EXCEPT ![t].pc = "raised", ![t].state = PyNone]
                /\ worker_pc' = "dead"
                /\ lock' = "free"
           ELSE /\ tasks' = [tasks EXCEPT
                       ![t].pc = "compute",
                       ![t].state.labeled_samples =
                           [samples |-> r.samples, labels |-> r.labels]]
                /\ UNCHANGED <<worker_pc, lock>>
    /\ UNCHANGED <<cache_vars, numpy_strict, edge_feature_cache, latest_state,
                   latest_successful_state, _is_running, update_queue,
                   state_update_notify, labels_call, edges_pc, stop_pc, server_vars>>

\* _update_state: get_sample_and_label_arrays(edge_features), State(...), end of `with`
TaskSnapshotLabels(t) ==
    /\ tasks[t].pc = "snapshot_labels"
    /\ lock' = "free"
    /\ LET r == get_sample_and_label_arrays(edge_label_map, tasks[t].state.edge_features)
       IN  IF r.exc # "None"
           THEN /\ tasks' = [tasks EXCEPT ![t].pc = "raised", ![t].state = PyNone]
                /\ worker_pc' = "dead"
           ELSE /\ tasks' = [tasks EXCEPT
                       ![t].pc = "compute",
                       ![t].state.labeled_samples =
                           [samples |-> r.samples, labels |-> r.labels]]
                /\ UNCHANGED worker_pc
    /\ UNCHANGED <<cache_vars, numpy_strict, edge_feature_cache, latest_state,
                   latest_successful_state, _is_running, update_queue,
                   state_update_notify, labels_call, edges_pc, stop_pc, server_vars>>

\* _update_state: exit_code = state.compute()
TaskCompute(t) ==
    /\ tasks[t].pc = "compute"
    /\ \E optimize_raises \in BOOLEAN :
          LET r == compute(tasks[t].state, optimize_raises)
          IN  tasks' = [tasks EXCEPT ![t].pc = "install",
                                     ![t].state = r.self,
                                     ![t].exit_code = r.exit_code]
    /\ UNCHANGED <<cache_vars, numpy_strict, edge_feature_cache, lock, latest_state,
                   latest_successful_state, _is_running, update_queue,
                   state_update_notify, worker_pc, labels_call, edges_pc, stop_pc,
                   server_vars>>

\* _update_state without the `if exit_code == State.SUCCESS`
install_always(latest, latest_successful, state, exit_code) ==
    [latest_state |-> state, latest_successful_state |-> state]

\* _update_state: what latest_state and latest_successful_state become
install(latest, latest_successful, state, exit_code) ==
    [latest_state            |-> state,
     latest_successful_state |-> IF exit_code = SUCCESS THEN state ELSE latest_successful]

\* _update_state with the loop over the listeners before the assignments of
\* latest_state and latest_successful_state
TaskInstallAfterNotify(t) ==
    /\ tasks[t].pc = "install"
    /\ LockFree
    /\ lock' = "worker"
    /\ tasks' = [tasks EXCEPT ![t].pc = "notify", ![t].i = 1]
    /\ UNCHANGED <<cache_vars, numpy_strict, edge_feature_cache, latest_state,
                   latest_successful_state, _is_running, update_queue,
                   state_update_notify, worker_pc, labels_call, edges_pc, stop_pc,
                   server_vars>>

\* _update_state: the second `with self.lock`, up to the loop over the listeners
TaskInstall(t) ==
    /\ tasks[t].pc = "install"
    /\ LockFree
    /\ lock' = "worker"
    /\ LET r == install(latest_state, latest_successful_state,
                        tasks[t].state, tasks[t].exit_code)
       IN  /\ latest_state' = r.latest_state
           /\ latest_successful_state' = r.latest_successful_state
    /\ tasks' = [tasks EXCEPT ![t].pc = "notify", ![t].i = 1]
    /\ UNCHANGED <<cache_vars, numpy_strict, edge_feature_cache, _is_running,
                   update_queue, state_update_notify, worker_pc, labels_call,
                   edges_pc, stop_pc, server_vars>>

\* a call of the listener inside `try: ... except Exception: pass`
call_listener_caught(listener, exit_code, state) == [exc |-> "None", put |-> <<>>]

\* listener(exit_code, state): the exception it raises, and what it puts on the
\* queue of the publisher.
\*   "two_args"      a callable of (exit_code, state) that returns
\*   "raises"        a callable of (exit_code, state) that raises
\*   "server_lambda" lambda solution_id, exit_code, solution: queue.put((solution_id, exit_code))
call_listener(listener, exit_code, state) ==
    IF listener = "server_lambda" THEN [exc |-> "TypeError", put |-> <<>>]
    ELSE IF listener = "raises" THEN [exc |-> "Exception", put |-> <<>>]
    ELSE [exc |-> "None", put |-> <<>>]

\* _update_state: one pass of `for listener in self.state_update_notify`, or its end
TaskNotify(t) ==
    /\ tasks[t].pc = "notify"
    /\ IF tasks[t].i > Len(state_update_notify)
       THEN /\ tasks' = [tasks EXCEPT ![t].pc = "done", ![t].state = PyNone, ![t].i = 0]
            /\ lock' = "free"
            /\ worker_pc' = "while"
            /\ UNCHANGED <<notifier_queue, listener_calls>>
       ELSE LET r == call_listener(state_update_notify[tasks[t].i],
                                   tasks[t].exit_code, tasks[t].state)
            IN  IF r.exc # "None"
                THEN /\ tasks' = [tasks EXCEPT ![t].pc = "raised", ![t].state = PyNone,
                                                ![t].i = 0]
                     /\ lock' = "free"
                     /\ worker_pc' = "dead"
                     /\ UNCHANGED <<notifier_queue, listener_calls>>
                ELSE /\ tasks' = [tasks EXCEPT ![t].i = @ + 1]
                     /\ notifier_queue' = notifier_queue \o r.put
                     /\ listener_calls' = Append(listener_calls,
                            [task |-> t, listener |-> tasks[t].i,
                             exit_code |-> tasks[t].exit_code])
                     /\ UNCHANGED <<lock, worker_pc>>
    /\ UNCHANGED <<cache_vars, numpy_strict, edge_feature_cache, latest_state,
                   latest_successful_state, _is_running, update_queue,
                   state_update_notify, labels_call, edges_pc, stop_pc, server, reply>>

\* request_update_edges: `with self.lock`, update_edge_features() reads the storage
UpdateEdgesRefresh(d) ==
    /\ ~server
    /\ edges_pc = "idle"
    /\ d \in ReadableAfter(edge_feature_cache)
    /\ LockFree
    /\ lock' = "edges"
    /\ edge_feature_cache' = d
    /\ edges_pc' = "refreshed"
    /\ UNCHANGED <<cache_vars, numpy_strict, latest_state, latest_successful_state,
                   _is_running, update_queue, state_update_notify, worker_pc, tasks,
                   labels_call, stop_pc, server_vars>>

\* _update_edges: update_edge_index_mapping(get_edges_and_features()[1]), end of `with`
UpdateEdgesMapping ==
    /\ edges_pc = "refreshed"
    /\ edge_index_mapping' =
           update_edge_index_mapping(get_edges_and_features(edge_feature_cache)[2])
    /\ lock' = "free"
    /\ edges_pc' = "idle"
    /\ UNCHANGED <<edge_label_map, cache_lock, cache_ret, numpy_strict,
                   edge_feature_cache, latest_state, latest_successful_state,
                   _is_running, update_queue, state_update_notify, worker_pc, tasks,
                   labels_call, stop_pc, server_vars>>

\* add_solution_update_listener
AddSolutionUpdateListener(listener) ==
    /\ ~server
    /\ Len(state_update_notify) < MaxListeners
    /\ LockFree
    /\ state_update_notify' = Append(state_update_notify, listener)
    /\ UNCHANGED <<cache_vars, numpy_strict, edge_feature_cache, lock, latest_state,
                   latest_successful_state, _is_running, update_queue, worker_pc,
                   tasks, labels_call, edges_pc, stop_pc, server_vars>>

get_latest_state(latest_successful) == latest_successful

\* stop: self._is_running = False
Stop ==
    /\ stop_pc = "idle"
    /\ _is_running' = FALSE
    /\ stop_pc' = "join"
    /\ UNCHANGED <<cache_vars, numpy_strict, edge_feature_cache, lock, latest_state,
                   latest_successful_state, update_queue, state_update_notify,
                   worker_pc, tasks, labels_call, edges_pc, server_vars>>

\* stop: self.update_worker.join() returns
StopJoined ==
    /\ stop_pc = "join"
    /\ worker_pc \in {"exit", "dead"}
    /\ stop_pc' = "stopped"
    /\ UNCHANGED <<cache_vars, numpy_strict, edge_feature_cache, lock, latest_state,
                   latest_successful_state, _is_running, update_queue,
                   state_update_notify, worker_pc, tasks, labels_call, edges_pc,
                   server_vars>>

----------------------------------------------------------------------------
(* The byte strings of the set-edge-labels channel (zmq_util) *)

RECURSIVE IntAsBytes(_, _)
IntAsBytes(n, width) ==
    IF width = 0 THEN <<>> ELSE IntAsBytes(n \div 256, width - 1) \o <<n % 256>>

Uint64Bytes(n) == IntAsBytes(n, 8)

RECURSIVE _edges_as_bytes(_)
_edges_as_bytes(edges) ==
    IF edges = <<>> THEN <<>>
    ELSE Uint64Bytes(edges[1][1]) \o Uint64Bytes(edges[1][2]) \o Uint64Bytes(edges[1][3])
         \o _edges_as_bytes(Tail(edges))

RECURSIVE BytesAsInt(_)
BytesAsInt(b) ==
    IF b = <<>> THEN 0 ELSE 256 * BytesAsInt(SubSeq(b, 1, Len(b) - 1)) + b[Len(b)]

Uint64At(bytez, k) == BytesAsInt(SubSeq(bytez, 8 * k - 7, 8 * k))

\* the (n, 3) array of uint64 a byte string holds, or the exception
_bytes_as_edges(bytez) ==
    IF Len(bytez) % 8 # 0
    THEN [exc |-> "ValueError", edges |-> <<>>,
          message |-> "buffer size must be a multiple of element size"]
    ELSE IF (Len(bytez) \div 8) % 3 # 0
    THEN [exc |-> "ValueError", edges |-> <<>>,
          message |-> "cannot reshape array into shape (3)"]
    ELSE [exc |-> "None", message |-> "",
          edges |-> [k \in 1..(Len(bytez) \div 24) |->
                        <<Uint64At(bytez, 3 * k - 2), Uint64At(bytez, 3 * k - 1),
                          Uint64At(bytez, 3 * k)>>]]

\* str(e) of the exceptions the label cache raises
ExceptionMessage(exc) ==
    IF exc = "ValueError" THEN "operands could not be broadcast together"
    ELSE IF exc = "IndexError" THEN "index is out of bounds"
    ELSE ""

----------------------------------------------------------------------------
(* request_set_edge_labels *)

SubmitEdges == {<<0, 1>>, <<0, 2>>, <<1, 0>>}
Labels == {0, 1}
SeqsUpTo(S, n) == UNION {[1..k -> S] : k \in 0..n}

\* the submissions of (endpoint_a, endpoint_b, label) triples
Submissions ==
    { << <<0, 1, 0>> >>,
      << <<1, 1, 1>> >>,
      << <<0, 1, 0>>, <<1, 1, 1>> >>,
      << <<1, 1, 1>>, <<1, 2, 0>> >>,
      << <<1, 1, 0>>, <<0, 1, 1>>, <<1, 1, 1>> >> }
Batches == {b \in Submissions : Len(b) <= MaxPairs}

\* _set_edge_labels without its `with self.lock`, on a cache without its lock
BeginSetEdgeLabelsUnlocked(triples, origin) ==
    /\ labels_call.pc = "idle"
    /\ UNCHANGED <<lock, cache_lock>>
    /\ labels_call' = [pc      |-> IF edge_index_mapping.kind = "None"
                                   THEN "return" ELSE "loop",
                       pending |-> triples,
                       n       |-> Len(triples),
                       origin  |-> origin,
                       exc     |-> "None"]

\* request_set_edge_labels, _set_edge_labels: `with self.lock`, then update_labels
\* up to its loop
BeginSetEdgeLabels(triples, origin) ==
    /\ labels_call.pc = "idle"
    /\ LockFree
    /\ lock' = "labels"
    /\ cache_lock' = "labels"
    /\ labels_call' = [pc      |-> IF edge_index_mapping.kind = "None"
                                   THEN "return" ELSE "loop",
                       pending |-> triples,
                       n       |-> Len(triples),
                       origin  |-> origin,
                       exc     |-> "None"]

\* Workflow.request_set_edge_labels(edges, labels) called by a user of the Workflow
RequestSetEdgeLabels(triples) ==
    /\ ~server
    /\ BeginSetEdgeLabels(triples, "direct")
    /\ UNCHANGED <<edge_label_map, edge_index_mapping, cache_ret, numpy_strict,
                   edge_feature_cache, latest_state, latest_successful_state,
                   _is_running, update_queue, state_update_notify, worker_pc, tasks,
                   edges_pc, stop_pc, server_vars>>

\* update_labels: one pass of `for e, l in zip(edges, labels)`, or its end
SetEdgeLabelsLoop ==
    /\ labels_call.pc = "loop"
    /\ IF labels_call.pending = <<>>
       THEN /\ labels_call' = [labels_call EXCEPT !.pc = "return"]
            /\ UNCHANGED edge_label_map
       ELSE LET p == Head(labels_call.pending)
                r == update_label(edge_index_mapping, edge_label_map,
                                  <<p[1], p[2]>>, p[3], numpy_strict)
            IN  /\ edge_label_map' = r.map
                /\ labels_call' =
                       IF r.exc # "None"
                       THEN [labels_call EXCEPT !.pc = "return", !.exc = r.exc]
                       ELSE [labels_call EXCEPT !.pending = Tail(@)]
    /\ UNCHANGED <<edge_index_mapping, cache_lock, cache_ret, numpy_strict,
                   workflow_vars_but_labels_call, server_vars>>

----------------------------------------------------------------------------
(* SolverServer *)

_SUCCESS == 0
_NO_SOLUTION_AVAILABLE == 1
_SET_EDGE_REP_SUCCESS == 0
_SET_EDGE_REP_DO_NOT_UNDERSTAND == 1
_SET_EDGE_REP_EXCEPTION == 2
_SET_EDGE_REQ_EDGE_LIST == 0
_SOLUTION_UPDATE_REQUEST_RECEIVED == 0

Methods == {_SET_EDGE_REQ_EDGE_LIST, 0 - 1, 1}
Zeros(n) == [i \in 1..n |-> 0]
Malformed == {Zeros(8), Zeros(20)}
Payloads == {_edges_as_bytes(b) : b \in Batches} \cup Malformed

_ndarray_as_bytes(solution) == [kind |-> "bytes", of |-> solution]

\* current_solution with the two status codes exchanged
current_solution_swapped(solution) ==
    IF solution = PyNone \/ solution.solution = PyNone
    THEN [channel |-> "current-solution", status |-> _SUCCESS, payload |-> <<>>]
    ELSE [channel |-> "current-solution", status |-> _NO_SOLUTION_AVAILABLE,
          payload |-> _ndarray_as_bytes(solution.solution)]

\* current_solution: the reply to a request on the current-solution channel
current_solution(solution) ==
    IF solution = PyNone \/ solution.solution = PyNone
    THEN [channel |-> "current-solution",
          status |-> _NO_SOLUTION_AVAILABLE, payload |-> <<>>]
    ELSE [channel |-> "current-solution",
          status |-> _SUCCESS, payload |-> _ndarray_as_bytes(solution.solution)]

CurrentSolution ==
    /\ server
    /\ lock = "free"
    /\ reply' = current_solution(get_latest_state(latest_successful_state))
    /\ UNCHANGED <<cache_vars, numpy_strict, workflow_vars, server, notifier_queue,
                   listener_calls>>

\* set_edge_labels_send decoding the payload before it looks at the method
set_edge_labels_send_decode_first(method, bytez) ==
    LET labels == _bytes_as_edges(bytez)
    IN  IF labels.exc # "None"
        THEN [do |-> "reply",
              reply |-> [channel |-> "set-edge-labels",
                         code |-> _SET_EDGE_REP_EXCEPTION,
                         message |-> labels.message]]
        ELSE IF method = _SET_EDGE_REQ_EDGE_LIST
        THEN [do |-> "call", labels |-> labels.edges]
        ELSE [do |-> "reply",
              reply |-> [channel |-> "set-edge-labels",
                         code |-> _SET_EDGE_REP_DO_NOT_UNDERSTAND, method |-> method]]

\* set_edge_labels_send taking a payload it cannot decode for an empty edge list
set_edge_labels_send_lenient(method, bytez) ==
    IF method = _SET_EDGE_REQ_EDGE_LIST
    THEN LET labels == _bytes_as_edges(bytez)
         IN  [do |-> "call", labels |-> labels.edges]
    ELSE [do |-> "reply",
          reply |-> [channel |-> "set-edge-labels",
                     code |-> _SET_EDGE_REP_DO_NOT_UNDERSTAND, method |-> method]]

\* set_edge_labels_send up to the call of request_set_edge_labels: the reply it
\* sends, or the labels it hands to the workflow
set_edge_labels_send(method, bytez) ==
    IF method = _SET_EDGE_REQ_EDGE_LIST
    THEN LET labels == _bytes_as_edges(bytez)
         IN  IF labels.exc # "None"
             THEN [do |-> "reply",
                   reply |-> [channel |-> "set-edge-labels",
                              code |-> _SET_EDGE_REP_EXCEPTION,
                              message |-> labels.message]]
             ELSE [do |-> "call", labels |-> labels.edges]
    ELSE [do |-> "reply",
          reply |-> [channel |-> "set-edge-labels",
                     code |-> _SET_EDGE_REP_DO_NOT_UNDERSTAND, method |-> method]]

\* set_edge_labels_send after request_set_edge_labels returned or raised
set_edge_labels_sent(n, exc) ==
    IF exc # "None"
    THEN [channel |-> "set-edge-labels",
          code |-> _SET_EDGE_REP_EXCEPTION, message |-> ExceptionMessage(exc)]
    ELSE [channel |-> "set-edge-labels", code |-> _SET_EDGE_REP_SUCCESS, count |-> n]

\* a request on the set-edge-labels channel that is answered without the workflow
SetEdgeLabelsRefused(method, bytez) ==
    /\ server
    /\ labels_call.pc = "idle"
    /\ set_edge_labels_send(method, bytez).do = "reply"
    /\ reply' = set_edge_labels_send(method, bytez).reply
    /\ UNCHANGED <<cache_vars, numpy_strict, workflow_vars, server, notifier_queue,
                   listener_calls>>

\* a request on the set-edge-labels channel that reaches request_set_edge_labels
SetEdgeLabelsCall(method, bytez) ==
    /\ server
    /\ set_edge_labels_send(method, bytez).do = "call"
    /\ BeginSetEdgeLabels(set_edge_labels_send(method, bytez).labels, "server")
    /\ UNCHANGED <<edge_label_map, edge_index_mapping, cache_ret, numpy_strict,
                   edge_feature_cache, latest_state, latest_successful_state,
                   _is_running, update_queue, state_update_notify, worker_pc, tasks,
                   edges_pc, stop_pc, server_vars>>

\* update_labels returns or raises, the locks are released, and the server replies
SetEdgeLabelsReturn ==
    /\ labels_call.pc = "return"
    /\ lock' = "free"
    /\ cache_lock' = "free"
    /\ labels_call' = [pc |-> "idle"]
    /\ reply' =
           IF labels_call.origin = "server"
           THEN set_edge_labels_sent(labels_call.n, labels_call.exc)
           ELSE reply
    /\ UNCHANGED <<edge_label_map, edge_index_mapping, cache_ret, numpy_strict,
                   edge_feature_cache, latest_state, latest_successful_state,
                   _is_running, update_queue, state_update_notify, worker_pc, tasks,
                   edges_pc, stop_pc, server, notifier_queue, listener_calls>>

\* update_request_received_confirmation: the reply, given what
\* request_update_state returned
update_request_received_confirmation(next_solution_id) ==
    [channel |-> "update-solution",
     code |-> _SOLUTION_UPDATE_REQUEST_RECEIVED, solution_id |-> next_solution_id]

\* a request on the update-solution channel
UpdateRequest ==
    /\ server
    /\ Len(tasks) < MaxRequests
    /\ LET r == request_update_state(update_queue, Len(tasks) + 1)
       IN  /\ update_queue' = r.queue
           /\ reply' = update_request_received_confirmation(r.ret)
           /\ tasks' = Append(tasks, NewTask(r.ret))
    /\ UNCHANGED <<cache_vars, numpy_strict, edge_feature_cache, lock, latest_state,
                   latest_successful_state, _is_running, state_update_notify,
                   worker_pc, labels_call, edges_pc, stop_pc, server, notifier_queue,
                   listener_calls>>

\* the reply of a ReplySocket that was given no `respond`
ping_respond == [channel |-> "ping", payload |-> <<>>]

\* a ping socket constructed with respond=update_request_received_confirmation
PingAsUpdateRequest ==
    /\ server
    /\ Len(tasks) < MaxRequests
    /\ LET r == request_update_state(update_queue, Len(tasks) + 1)
       IN  /\ update_queue' = r.queue
           /\ tasks' = Append(tasks, NewTask(r.ret))
    /\ reply' = ping_respond
    /\ UNCHANGED <<cache_vars, numpy_strict, edge_feature_cache, lock, latest_state,
                   latest_successful_state, _is_running, state_update_notify,
                   worker_pc, labels_call, edges_pc, stop_pc, server, notifier_queue,
                   listener_calls>>

\* a request on the ping channel: ping_socket has no handler of the server
Ping ==
    /\ server
    /\ reply' = ping_respond
    /\ UNCHANGED <<cache_vars, numpy_strict, workflow_vars, server, notifier_queue,
                   listener_calls>>

----------------------------------------------------------------------------
(* The API channel *)

API_RESPONSE_OK == 0
API_RESPONSE_UNKNOWN_ERROR == 1
API_RESPONSE_ENDPOINT_UNKNOWN == 2
API_RESPONSE_DATA_STRING == 0
API_RESPONSE_DATA_BYTES == 1
API_RESPONSE_DATA_INT == 2
API_RESPONSE_DATA_UNKNOWN == 3

\* a str, held as the number of '/' it starts with and what follows them
Str(slashes, rest) == [slashes |-> slashes, rest |-> rest]

\* str.lstrip('/')
lstrip(str) == Str(0, str.rest)

\* '/' + str
SlashPlus(str) == Str(str.slashes + 1, str.rest)

MaxSlashes == 2      \* the '/' an endpoint starts with
Rests == {"", "help", "Help", "help/", "api", "api/n5", "api/n5/all", "api/n5/all/",
          "api/n5/container", "api/n5/dataset", "unknown"}
Endpoints == {Str(n, r) : n \in 0..MaxSlashes, r \in Rests}

\* the arguments of the server, and the help message made of its address
n5_container == Str(1, "tmp/edge-group")
paintera_dataset == Str(0, "volumes/labels")
create_help_message == Str(0, "Paintera Interactive Solver Server ...")

\* the frames of one (message_type, message) of api_endpoint_respond
RespondPart(part, last) ==
    << [kind |-> "int", int |-> part[1], more |-> TRUE] >> \o
    (IF part[1] = API_RESPONSE_DATA_STRING
     THEN << [kind |-> "string", string |-> part[2], more |-> ~last] >>
     ELSE IF part[1] \in {API_RESPONSE_DATA_BYTES, API_RESPONSE_DATA_UNKNOWN}
     THEN << [kind |-> "bytes", bytes |-> part[2], more |-> ~last] >>
     ELSE IF part[1] = API_RESPONSE_DATA_INT
     THEN << [kind |-> "ints", ints |-> part[2], more |-> ~last] >>
     ELSE <<>>)

RECURSIVE RespondParts(_, _)
RespondParts(messages, index) ==
    IF index > Len(messages) THEN <<>>
    ELSE RespondPart(messages[index], index = Len(messages))
         \o RespondParts(messages, index + 1)

\* api_endpoint_respond(socket, return_code, *messages): the frames it sends
api_endpoint_respond(return_code, messages) ==
    << [kind |-> "int", int |-> return_code, more |-> TRUE],
       [kind |-> "int", int |-> Len(messages), more |-> Len(messages) # 0] >>
    \o RespondParts(messages, 1)

\* api_socket_send answering an unknown endpoint with the path it looked up
api_socket_send_echo_message(endpoint) ==
    IF endpoint = Str(0, "") \/ endpoint = Str(1, "")
    THEN << [kind |-> "bytes", bytes |-> <<>>, more |-> FALSE] >>
    ELSE LET message == SlashPlus(lstrip(endpoint))
         IN  IF message = Str(1, "help") \/ message = Str(0, "help")
             THEN api_endpoint_respond(API_RESPONSE_OK,
                      << <<API_RESPONSE_DATA_STRING, create_help_message>> >>)
             ELSE api_endpoint_respond(API_RESPONSE_ENDPOINT_UNKNOWN,
                      << <<API_RESPONSE_DATA_STRING, Str(0, "Endpoint unknown")>>,
                         <<API_RESPONSE_DATA_STRING, message>> >>)

\* api_socket_send(endpoint, socket): the frames it sends
api_socket_send(endpoint) ==
    IF endpoint = Str(0, "") \/ endpoint = Str(1, "")
    THEN << [kind |-> "bytes", bytes |-> <<>>, more |-> FALSE] >>
    ELSE LET message == SlashPlus(lstrip(endpoint))
         IN  IF message = Str(1, "help") \/ message = Str(0, "help")
             THEN api_endpoint_respond(API_RESPONSE_OK,
                      << <<API_RESPONSE_DATA_STRING, create_help_message>> >>)
             ELSE IF message = Str(1, "api/n5/all")
             THEN api_endpoint_respond(API_RESPONSE_OK,
                      << <<API_RESPONSE_DATA_STRING, n5_container>>,
                         <<API_RESPONSE_DATA_STRING, paintera_dataset>> >>)
             ELSE IF message = Str(1, "api/n5/container")
             THEN api_endpoint_respond(API_RESPONSE_OK,
                      << <<API_RESPONSE_DATA_STRING, n5_container>> >>)
             ELSE IF message = Str(1, "api/n5/dataset")
             THEN api_endpoint_respond(API_RESPONSE_OK,
                      << <<API_RESPONSE_DATA_STRING, paintera_dataset>> >>)
             ELSE api_endpoint_respond(API_RESPONSE_ENDPOINT_UNKNOWN,
                      << <<API_RESPONSE_DATA_STRING, Str(0, "Endpoint unknown")>>,
                         <<API_RESPONSE_DATA_STRING, endpoint>> >>)

\* a request on the API channel
Api(endpoint) ==
    /\ server
    /\ reply' = [channel |-> "api", frames |-> api_socket_send(endpoint)]
    /\ UNCHANGED <<cache_vars, numpy_strict, workflow_vars, server, notifier_queue,
                   listener_calls>>

----------------------------------------------------------------------------
(* The workflow, with or without its server *)

Listeners == {"two_args", "raises"}

\* the steps of the update_worker thread
Worker ==
    \/ WorkerWhile
    \/ WorkerGet
    \/ \E t \in 1..Len(tasks) : TaskSnapshotFeatures(t)
    \/ \E t \in 1..Len(tasks) : TaskSnapshotLabels(t)
    \/ \E t \in 1..Len(tasks) : TaskCompute(t)
    \/ \E t \in 1..Len(tasks) : TaskInstall(t)
    \/ \E t \in 1..Len(tasks) : TaskNotify(t)

\* a Workflow and the threads that call it
Next ==
    \/ Worker
    \/ RequestUpdateState
    \/ \E d \in Datasets : UpdateEdgesRefresh(d)
    \/ UpdateEdgesMapping
    \/ \E listener \in Listeners : AddSolutionUpdateListener(listener)
    \/ \E triples \in Batches : RequestSetEdgeLabels(triples)
    \/ SetEdgeLabelsLoop
    \/ SetEdgeLabelsReturn
    \/ Stop
    \/ StopJoined

\* the Workflow of a SolverServer, the channels of the server and shutdown
ServerNext ==
    \/ Worker
    \/ \E method \in Methods, bytez \in Payloads : SetEdgeLabelsRefused(method, bytez)
    \/ \E method \in Methods, bytez \in Payloads : SetEdgeLabelsCall(method, bytez)
    \/ SetEdgeLabelsLoop
    \/ SetEdgeLabelsReturn
    \/ CurrentSolution
    \/ UpdateRequest
    \/ Ping
    \/ Stop
    \/ StopJoined

\* Workflow(...) constructed by its user
WorkflowInit == Init /\ ~server

\* SolverServer(...) constructed: its Workflow, and the listener it registers
ServerInit == Init /\ server

\* the channels of the server that are answered without the worker thread
ApiNext ==
    \/ \E endpoint \in Endpoints : Api(endpoint)
    \/ Ping
    \/ CurrentSolution
    \/ \E method \in Methods, bytez \in Payloads : SetEdgeLabelsRefused(method, bytez)

Spec == WorkflowInit /\ [][Next]_vars

SpecApi == ServerInit /\ [][ApiNext]_vars

SpecServer == ServerInit /\ [][ServerNext]_vars

\* a Workflow that is stopped while other threads make requests, register
\* listeners and refresh the edges
FairNext ==
    \/ Worker
    \/ RequestUpdateState
    \/ \E d \in Datasets : UpdateEdgesRefresh(d)
    \/ UpdateEdgesMapping
    \/ \E listener \in Listeners : AddSolutionUpdateListener(listener)
    \/ Stop
    \/ StopJoined

\* the threads scheduled: the update_worker thread goes on whenever it can, and
\* takes self.lock if the lock is free again and again (get(timeout) returns
\* within its timeout, compute() and the listeners return or raise); a thread
\* that holds self.lock goes on to release it; join() returns once the
\* update_worker thread has ended
FairSpec ==
    /\ WorkflowInit /\ [][FairNext]_vars
    /\ SF_vars(Worker)
    /\ WF_vars(UpdateEdgesMapping)
    /\ WF_vars(StopJoined)

\* SpecServer with the threads scheduled: the update_worker thread goes on
\* whenever it can and takes self.lock if the lock is free again and again,
\* and the thread of the set-edge-labels channel, which holds the lock during
\* update_labels, goes on to release it
FairSpecServer ==
    /\ SpecServer
    /\ SF_vars(Worker)
    /\ WF_vars(SetEdgeLabelsLoop)
    /\ WF_vars(SetEdgeLabelsReturn)

----------------------------------------------------------------------------
(* A Workflow and the one thread that uses it and then stops it *)

\* request_update_state() called by the thread that later calls stop(): once it
\* is in stop() it is held in update_worker.join() and makes no other call
RequestUpdateStateBeforeStop ==
    /\ stop_pc = "idle"
    /\ RequestUpdateState

\* request_set_edge_labels(edges, labels) called by that thread
RequestSetEdgeLabelsBeforeStop(triples) ==
    /\ stop_pc = "idle"
    /\ RequestSetEdgeLabels(triples)

StopNext ==
    \/ Worker
    \/ RequestUpdateStateBeforeStop
    \/ \E triples \in Batches : RequestSetEdgeLabelsBeforeStop(triples)
    \/ SetEdgeLabelsLoop
    \/ SetEdgeLabelsReturn
    \/ Stop
    \/ StopJoined

SpecStop == WorkflowInit /\ [][StopNext]_vars

----------------------------------------------------------------------------
(* The EdgeLabelCache used on its own *)

Mappings ==
    {d.edge_index_mapping : d \in Datasets} \cup {d.edge_features : d \in Datasets}

LabelsFor(edges) ==
    {l \in SeqsUpTo(Labels, MaxPairs) : Len(edges) - 1 <= Len(l) /\ Len(l) <= Len(edges)}

CacheInit ==
    /\ edge_label_map = EmptyMap
    /\ edge_index_mapping = PyNone
    /\ cache_lock = "free"
    /\ cache_ret = [op |-> "init"]
    /\ numpy_strict \in BOOLEAN
    /\ edge_feature_cache = PyNone
    /\ lock = "free"
    /\ latest_state = PyNone
    /\ latest_successful_state = PyNone
    /\ _is_running = FALSE
    /\ update_queue = <<>>
    /\ state_update_notify = <<>>
    /\ worker_pc = "exit"
    /\ tasks = <<>>
    /\ labels_call = [pc |-> "idle"]
    /\ edges_pc = "idle"
    /\ stop_pc = "idle"
    /\ server = FALSE
    /\ reply = [channel |-> "none"]
    /\ notifier_queue = <<>>
    /\ listener_calls = <<>>

\* EdgeLabelCache.update_labels(edges, labels)
CacheUpdateLabels(edges, labels) ==
    LET r == update_labels(edge_index_mapping, edge_label_map, edges, labels, numpy_strict)
    IN  /\ edge_label_map' = r.map
        /\ cache_ret' = [op |-> "update_labels", exc |-> r.exc, skipped |-> r.skipped,
                         pairs |-> Min(Len(edges), Len(labels))]
        /\ UNCHANGED <<edge_index_mapping, cache_lock, numpy_strict, workflow_vars,
                       server_vars>>

\* an update_edge_index_mapping that drops the labels recorded so far
CacheUpdateEdgeIndexMappingClearing(mapping) ==
    /\ edge_index_mapping' = update_edge_index_mapping(mapping)
    /\ edge_label_map' = EmptyMap
    /\ cache_ret' = [op |-> "update_edge_index_mapping"]
    /\ UNCHANGED <<cache_lock, numpy_strict, workflow_vars, server_vars>>

\* EdgeLabelCache.update_edge_index_mapping(mapping)
CacheUpdateEdgeIndexMapping(mapping) ==
    /\ edge_index_mapping' = update_edge_index_mapping(mapping)
    /\ cache_ret' = [op |-> "update_edge_index_mapping"]
    /\ UNCHANGED <<edge_label_map, cache_lock, numpy_strict, workflow_vars, server_vars>>

\* EdgeLabelCache.get_sample_and_label_arrays(samples)
CacheGetSampleAndLabelArrays(samples) ==
    /\ cache_ret' = [op  |-> "get_sample_and_label_arrays",
                     ret |-> get_sample_and_label_arrays(edge_label_map, samples)]
    /\ UNCHANGED <<edge_label_map, edge_index_mapping, cache_lock, numpy_strict,
                   workflow_vars, server_vars>>

CacheNext ==
    \/ \E edges \in SeqsUpTo(SubmitEdges, MaxPairs) : \E labels \in LabelsFor(edges) :
            CacheUpdateLabels(edges, labels)
    \/ \E mapping \in Mappings : CacheUpdateEdgeIndexMapping(mapping)
    \/ \E d \in Datasets : CacheGetSampleAndLabelArrays(d.edge_features)

SpecCache == CacheInit /\ [][CacheNext]_vars

----------------------------------------------------------------------------
(* Properties *)

\* C1: the k-th update-solution request of a fresh server (k = 0, 1, ...) is
\* answered with the code RECEIVED(0) and the solution id k.
C1_UpdateRequestAnsweredWithId ==
    reply.channel = "update-solution" =>
        /\ reply.code = _SOLUTION_UPDATE_REQUEST_RECEIVED
        /\ reply.solution_id = Len(tasks) - 1

\* C2: every call of request_update_state returns a solution id, the ids of
\* different calls differ, and they follow the order of the puts with none
\* skipped.
C2_DistinctIdsInEnqueueOrder ==
    /\ \A t \in 1..Len(tasks) : tasks[t].returned \in Nat
    /\ \A t1, t2 \in 1..Len(tasks) : t1 # t2 => tasks[t1].returned # tasks[t2].returned
    /\ \A t \in 2..Len(tasks) : tasks[t].returned = tasks[t - 1].returned + 1

\* C3: for every recompute of a server that has completed and is past its
\* listeners, the queue of the new-solution publisher holds exactly one pair
\* (solution_id, exit_code), of the id returned to the requester and the exit
\* code of compute().
C3_OnePairPerCompletedRecompute ==
    server =>
        \A t \in 1..Len(tasks) :
            (tasks[t].exit_code # NoneInt /\ tasks[t].pc \in {"done", "raised"}) =>
                Cardinality({k \in 1..Len(notifier_queue) :
                                notifier_queue[k] = <<tasks[t].returned,
                                                      tasks[t].exit_code>>}) = 1

\* C4: recomputes start, complete and notify in the order of their requests:
\* the queue holds the waiting requests oldest first, a recompute has started
\* only if every earlier one is done with its listeners, and the calls of
\* listeners are in the order of the requests.
C4_RequestOrder ==
    /\ update_queue = SortedSeq({t \in 1..Len(tasks) : tasks[t].pc = "queued"})
    /\ \A i, j \in 1..Len(tasks) :
          (i < j /\ tasks[j].pc # "queued") => tasks[i].pc = "done"
    /\ \A a, b \in 1..Len(listener_calls) :
          a < b => listener_calls[a].task <= listener_calls[b].task
    /\ \A a \in 1..Len(listener_calls) :
          /\ tasks[listener_calls[a].task].pc \in {"notify", "done", "raised"}
          /\ listener_calls[a].exit_code = tasks[listener_calls[a].task].exit_code

\* two recomputes have notified a listener, the first request first
C4_Witness ==
    /\ Len(tasks) >= 2
    /\ tasks[2].pc = "done"
    /\ \E a, b \in 1..Len(listener_calls) :
          a < b /\ listener_calls[a].task = 1 /\ listener_calls[b].task = 2

\* C5: at most one recompute is in progress, however many requests are queued.
C5_AtMostOneInProgress ==
    LET InProgress == {t \in 1..Len(tasks) :
                          tasks[t].pc \in {"snapshot", "snapshot_labels", "compute",
                                           "install", "notify"}}
    IN  /\ Cardinality(InProgress) <= 1
        /\ InProgress # {} => worker_pc = "task"

\* a recompute is inside compute() while another request waits in the queue
C5_Witness ==
    /\ update_queue # <<>>
    /\ \E t \in 1..Len(tasks) : tasks[t].pc = "compute"

\* C6: as long as no recompute has completed with SUCCESS, a current-solution
\* request is answered with NO_SOLUTION(1) and an empty payload.
C6_NoSolutionBeforeSuccess ==
    (\A t \in 1..Len(tasks) :
        tasks[t].pc \in {"notify", "done", "raised"} => tasks[t].exit_code # SUCCESS) =>
        /\ current_solution(get_latest_state(latest_successful_state)) =
               [channel |-> "current-solution",
                status |-> _NO_SOLUTION_AVAILABLE, payload |-> <<>>]
        /\ reply.channel = "current-solution" =>
               reply.status = _NO_SOLUTION_AVAILABLE /\ reply.payload = <<>>

\* a current-solution request answered after a failed recompute and a label
\* submission
C6_Witness ==
    /\ reply.channel = "current-solution"
    /\ reply.status = _NO_SOLUTION_AVAILABLE
    /\ edge_label_map # EmptyMap
    /\ \E t \in 1..Len(tasks) :
          /\ tasks[t].pc \in {"notify", "done", "raised"}
          /\ tasks[t].exit_code = RANDOM_FOREST_TRAINING_FAILED

\* C7: the step that completes a recompute makes its state latest_state and,
\* if its outcome is SUCCESS, latest_successful_state; a failed recompute
\* leaves latest_successful_state, and with it the answer of current-solution,
\* as it was; no other step changes either of them.
C7_LatestStates ==
    [][ /\ \A t \in 1..Len(tasks) :
              (tasks[t].pc = "install" /\ tasks'[t].pc = "notify") =>
                  /\ latest_state' = tasks[t].state
                  /\ tasks[t].exit_code = SUCCESS =>
                         latest_successful_state' = tasks[t].state
                  /\ tasks[t].exit_code # SUCCESS =>
                         /\ latest_successful_state' = latest_successful_state
                         /\ current_solution(get_latest_state(latest_successful_state')) =
                                current_solution(get_latest_state(latest_successful_state))
        /\ (\A t \in 1..Len(tasks) :
                ~(tasks[t].pc = "install" /\ tasks'[t].pc = "notify")) =>
               UNCHANGED <<latest_state, latest_successful_state>>
      ]_vars

\* a failed recompute has completed after a successful one
C7_Witness ==
    /\ latest_successful_state # PyNone
    /\ latest_state # PyNone
    /\ latest_state.solution = PyNone
    /\ latest_successful_state.solution # PyNone
    /\ Len(tasks) >= 2
    /\ tasks[1].exit_code = SUCCESS
    /\ tasks[2].exit_code \in {RANDOM_FOREST_TRAINING_FAILED, MC_OPTIMIZATION_FAILED}
    /\ tasks[2].pc = "done"

C9_UnknownMethodRefused ==
    [][ \A method \in Methods \ {_SET_EDGE_REQ_EDGE_LIST}, bytez \in Payloads :
            /\ set_edge_labels_send(method, bytez).do = "reply"
            /\ ~ENABLED SetEdgeLabelsCall(method, bytez)
            /\ SetEdgeLabelsRefused(method, bytez) =>
                   /\ reply' = [channel |-> "set-edge-labels",
                                code |-> _SET_EDGE_REP_DO_NOT_UNDERSTAND,
                                method |-> method]
                   /\ UNCHANGED <<edge_label_map, edge_index_mapping, labels_call>>
      ]_vars

\* a request with method -1 was refused while the cache held labels
C9_Witness ==
    /\ reply.channel = "set-edge-labels"
    /\ reply.code = _SET_EDGE_REP_DO_NOT_UNDERSTAND
    /\ reply.method = 0 - 1
    /\ edge_label_map # EmptyMap

\* C10: a set-edge-labels request with method EDGE_LIST and a payload whose
\* length is not that of whole triples is answered with EXCEPTION(2) and a
\* message that is not empty, leaves the label cache with the entries it had,
\* and leaves the channel ready for the next request.
C10_MalformedPayloadRefused ==
    [][ \A bytez \in Payloads :
            Len(bytez) % 24 # 0 =>
                /\ set_edge_labels_send(_SET_EDGE_REQ_EDGE_LIST, bytez).do = "reply"
                /\ SetEdgeLabelsRefused(_SET_EDGE_REQ_EDGE_LIST, bytez) =>
                       /\ reply'.channel = "set-edge-labels"
                       /\ reply'.code = _SET_EDGE_REP_EXCEPTION
                       /\ reply'.message # ""
                       /\ UNCHANGED <<edge_label_map, edge_index_mapping, lock,
                                      cache_lock, worker_pc>>
                       /\ labels_call' = [pc |-> "idle"]
      ]_vars

\* a malformed request was answered while the cache held labels
C10_Witness ==
    /\ reply.channel = "set-edge-labels"
    /\ reply.code = _SET_EDGE_REP_EXCEPTION
    /\ reply.message = "cannot reshape array into shape (3)"
    /\ edge_label_map # EmptyMap
    /\ labels_call.pc = "idle"

\* C11: a set-edge-labels request with method EDGE_LIST and a payload of n whole
\* triples reaches the workflow, and when request_set_edge_labels is over, with
\* the labels applied, it is answered with (SUCCESS(0), n), also when some of
\* the triples name edges that the mapping does not hold.
C11_WellFormedAnsweredWithCount ==
    [][ /\ \A bytez \in Payloads :
              Len(bytez) % 24 = 0 =>
                  /\ set_edge_labels_send(_SET_EDGE_REQ_EDGE_LIST, bytez).do = "call"
                  /\ Len(set_edge_labels_send(_SET_EDGE_REQ_EDGE_LIST, bytez).labels) =
                         Len(bytez) \div 24
        /\ (labels_call.pc = "return" /\ labels_call.origin = "server"
              /\ labels_call'.pc = "idle") =>
               reply' = [channel |-> "set-edge-labels",
                         code |-> _SET_EDGE_REP_SUCCESS, count |-> labels_call.n]
      ]_vars

\* C12: every ping request is answered with an empty response, and the step
\* that answers it changes nothing of the workflow: not the label cache, the
\* index mapping, latest_state, latest_successful_state, the work queue and
\* its tasks, the locks, the listeners or the worker.
C12_PingChangesNothing ==
    [][ (reply'.channel = "ping" /\ reply' # reply) =>
            /\ reply'.payload = <<>>
            /\ UNCHANGED <<cache_vars, workflow_vars, notifier_queue, listener_calls>>
      ]_vars

\* a ping was answered by a server that holds labels, a state and a queued task
C12_Witness ==
    /\ reply.channel = "ping"
    /\ reply.payload = <<>>
    /\ edge_label_map # EmptyMap
    /\ latest_state # PyNone
    /\ Len(tasks) >= 1

C14_FailedRecomputeKeepsWorkerAlive ==
    \A t \in 1..Len(tasks) :
        tasks[t].exit_code \in {RANDOM_FOREST_TRAINING_FAILED, MC_OPTIMIZATION_FAILED} =>
            /\ tasks[t].pc # "raised"
            /\ worker_pc # "dead"

\* C15: once stop() has been called no task that was queued and not started
\* at that moment starts: where every request is made before stop() is
\* called, a task leaves the queue and starts only while _is_running is set.
C15_QueuedTasksAbandonedAfterStop ==
    [][ \A t \in 1..Len(tasks) :
            (tasks[t].pc = "queued" /\ tasks'[t].pc # "queued") => _is_running
      ]_vars

\* C16: stop() terminates: whatever the queue holds and whatever requests are
\* made meanwhile, a call of stop() that waits in join() returns, the worker
\* thread having left its loop (or ended by an exception); and once stop() has
\* returned no task starts, then or ever, whenever it was or is put on the
\* queue.
C16_StopTerminates ==
    /\ (stop_pc = "join") ~> (stop_pc = "stopped")
    /\ [][ stop_pc = "stopped" =>
               /\ worker_pc' = worker_pc
               /\ worker_pc \in {"exit", "dead"}
               /\ \A t \in 1..Len(tasks) : tasks'[t] = tasks[t]
          ]_vars

\* stop() has returned after the worker ran the first task to its end and left
\* its loop, and the second task is in the queue
C16_Witness ==
    /\ stop_pc = "stopped"
    /\ worker_pc = "exit"
    /\ Len(tasks) = 2
    /\ tasks[1].pc = "done"
    /\ tasks[2].pc = "queued"
    /\ update_queue = <<2>>

\* C17: the outcome of a recompute is seen through current-solution only.  A
\* recompute that finds no labels in the cache gets RANDOM_FOREST_TRAINING_FAILED
\* and no solution, and leaves latest_successful_state as it was; a recompute
\* requested once the cache holds labels of both classes is executed: it is
\* not left in the queue of a worker thread that an exception has ended; and
\* the reply to the update request carries no exit code.
C17_OutcomeByCurrentSolution ==
    /\ \A t \in 1..Len(tasks) :
           /\ (tasks[t].pc = "install" /\ tasks[t].state.labeled_samples.labels = <<>>) =>
                  /\ tasks[t].exit_code = RANDOM_FOREST_TRAINING_FAILED
                  /\ tasks[t].state.solution = PyNone
           /\ (tasks[t].pc = "queued" /\ {0, 1} \subseteq Range(edge_label_map)) =>
                  worker_pc # "dead"
    /\ reply.channel = "update-solution" =>
           DOMAIN reply = {"channel", "code", "solution_id"}

\* C18: compute() returns, and with one of three exit codes:
\* RANDOM_FOREST_TRAINING_FAILED if and only if the training raises, and then
\* the optimizer has not run (the state is as it was);
\* MC_OPTIMIZATION_FAILED only if the training succeeded, no solution being
\* stored; SUCCESS if and only if the training succeeded and the solution of
\* the optimizer is stored.  No exception leaves compute(): the worker goes on
\* to install the state, and compute() is not run again for the task.
C18_ComputeOutcomes ==
    [][ \A t \in 1..Len(tasks) :
            (tasks[t].pc = "compute" /\ tasks'[t] # tasks[t]) =>
                LET self    == tasks[t].state
                    samples == self.labeled_samples.samples
                    labels  == self.labeled_samples.labels
                    raises  == train_model_raises(samples, labels)
                    code    == tasks'[t].exit_code
                IN  /\ tasks'[t].pc = "install"
                    /\ worker_pc' = "task" /\ worker_pc = "task"
                    /\ code \in {SUCCESS, RANDOM_FOREST_TRAINING_FAILED,
                                 MC_OPTIMIZATION_FAILED}
                    /\ code = RANDOM_FOREST_TRAINING_FAILED <=> raises
                    /\ code # SUCCESS => tasks'[t].state = self
                    /\ code = SUCCESS <=>
                           /\ ~raises
                           /\ tasks'[t].state =
                                  [self EXCEPT !.solution = optimize(self.graph, samples, labels)]
                           /\ tasks'[t].state.solution # PyNone
      ]_vars

\* the training succeeded on labels of both classes, the optimizer raised, and
\* compute() has returned MC_OPTIMIZATION_FAILED without a solution
C18_Witness ==
    \E t \in 1..Len(tasks) :
        /\ tasks[t].pc = "install"
        /\ tasks[t].exit_code = MC_OPTIMIZATION_FAILED
        /\ {0, 1} \subseteq Range(tasks[t].state.labeled_samples.labels)
        /\ tasks[t].state.solution = PyNone

\* C19: every State on which compute() has completed, the one the worker is
\* about to install or to hand to the listeners and the ones installed as
\* latest_state and latest_successful_state, has a solution_state that is one
\* of the four outcomes, equal to the exit code compute() returned, and holds
\* a solution if and only if its solution_state is SUCCESS.
C19_SolutionStateIsTheOutcome ==
    LET Outcomes == {SUCCESS, NO_LABEL_FOR_SOME_CLASSES,
                     RANDOM_FOREST_TRAINING_FAILED, MC_OPTIMIZATION_FAILED}
        Computed(state) ==
            /\ state.solution_state \in Outcomes
            /\ state.solution # PyNone <=> state.solution_state = SUCCESS
    IN  /\ latest_state # PyNone => Computed(latest_state)
        /\ latest_successful_state # PyNone => Computed(latest_successful_state)
        /\ \A t \in 1..Len(tasks) :
               tasks[t].pc \in {"install", "notify"} =>
                   /\ Computed(tasks[t].state)
                   /\ tasks[t].state.solution_state = tasks[t].exit_code

\* C20: self.lock is not held by the worker while a recompute is in compute():
\* the worker holds it exactly from the start of the snapshot to its end and
\* from the installation of the result to the end of the notifications, and
\* while a task is in compute() a call of request_update_edges or of
\* request_set_edge_labels finds the lock free unless another such call holds
\* it, takes it, and nothing that it waits for depends on the recompute.
C20_LockFreeDuringCompute ==
    /\ lock = "worker" <=>
           \E t \in 1..Len(tasks) : tasks[t].pc \in {"snapshot_labels", "notify"}
    /\ \A t \in 1..Len(tasks) :
           tasks[t].pc \in {"compute", "install"} =>
               /\ lock \in {"free", "labels", "edges"}
               /\ (lock = "free" /\ edges_pc = "idle") =>
                      ENABLED (\E d \in Datasets : UpdateEdgesRefresh(d))
               /\ (lock = "free" /\ labels_call.pc = "idle") =>
                      ENABLED (\E triples \in Batches : RequestSetEdgeLabels(triples))
               /\ lock = "labels" => ENABLED (SetEdgeLabelsLoop \/ SetEdgeLabelsReturn)
               /\ lock = "edges" => ENABLED UpdateEdgesMapping

\* a recompute is in compute() on a snapshot without labels, and meanwhile a
\* call of request_set_edge_labels has taken the lock, stored a label and
\* returned
C20_Witness ==
    \E t \in 1..Len(tasks) :
        /\ tasks[t].pc = "compute"
        /\ tasks[t].state.labeled_samples.labels = <<>>
        /\ edge_label_map # EmptyMap
        /\ labels_call.pc = "idle"
        /\ lock = "free"

\* C21: the inputs of one State are one snapshot.  Between the read of the
\* feature cache and the read of the label cache no step changes the feature
\* cache, the label map or the index mapping; the State that leaves the first
\* `with` holds the edges, features and graph of the feature cache and the
\* samples and labels of the label map as they are at that moment; and from
\* then on, until compute() is called, no step changes the State, whatever
\* labels are submitted and edges refreshed, and compute() gives an outcome
\* that follows from the State alone.
C21_AtomicSnapshot ==
    [][ \A t \in 1..Len(tasks) :
            /\ tasks[t].pc = "snapshot_labels" =>
                   /\ UNCHANGED <<edge_feature_cache, edge_label_map, edge_index_mapping>>
                   /\ tasks[t].state.edges = get_edges_and_features(edge_feature_cache)[1]
                   /\ tasks[t].state.edge_features =
                          get_edges_and_features(edge_feature_cache)[2]
                   /\ tasks[t].state.graph = get_edges_and_features(edge_feature_cache)[4]
                   /\ tasks'[t].pc = "compute" =>
                          LET r == get_sample_and_label_arrays(
                                       edge_label_map, tasks[t].state.edge_features)
                          IN  tasks'[t].state =
                                  [tasks[t].state EXCEPT !.labeled_samples =
                                      [samples |-> r.samples, labels |-> r.labels]]
            /\ tasks[t].pc = "compute" =>
                   \/ tasks'[t] = tasks[t]
                   \/ \E optimize_raises \in BOOLEAN :
                          /\ tasks'[t].state = compute(tasks[t].state, optimize_raises).self
                          /\ tasks'[t].exit_code =
                                 compute(tasks[t].state, optimize_raises).exit_code
      ]_vars

\* compute() has returned RANDOM_FOREST_TRAINING_FAILED on a snapshot without
\* labels, taken before the edges were refreshed, while the label map now holds
\* labels and the feature cache other edges
C21_Witness ==
    \E t \in 1..Len(tasks) :
        /\ tasks[t].pc = "install"
        /\ tasks[t].exit_code = RANDOM_FOREST_TRAINING_FAILED
        /\ tasks[t].state.labeled_samples.labels = <<>>
        /\ edge_label_map # EmptyMap
        /\ tasks[t].state.edges # get_edges_and_features(edge_feature_cache)[1]

\* C22 as written: when the notifications of a recompute are over, every
\* registered listener has been invoked for it and has returned, once and in
\* the order of registration.
C22_EveryListenerInvoked ==
    [][ \A t \in 1..Len(tasks) :
            (tasks[t].pc = "notify" /\ tasks'[t].pc # "notify") =>
                LET calls == SelectSeq(listener_calls', LAMBDA c : c.task = t)
                IN  /\ Len(calls) = Len(state_update_notify)
                    /\ \A k \in 1..Len(calls) : calls[k].listener = k
      ]_vars

\* C22: the listeners of a recompute are invoked one after the other in the
\* order of registration, each at most once, with the exit code of the
\* recompute, under the workflow lock, the state of the recompute being
\* installed as latest_state and, on SUCCESS, as latest_successful_state; the
\* list of listeners does not change meanwhile.  The loop ends after the last
\* listener, every listener having returned once, or at the first listener
\* that raises, the listeners after it not being invoked.  Once a listener has
\* been given SUCCESS, current-solution does not answer NO_SOLUTION.
C22_ListenersInOrderAfterInstall ==
    /\ [][ \A t \in 1..Len(tasks) :
              tasks[t].pc = "notify" =>
                  LET calls == SelectSeq(listener_calls, LAMBDA c : c.task = t)
                      i     == tasks[t].i
                  IN  /\ lock = "worker"
                      /\ state_update_notify' = state_update_notify
                      /\ latest_state = tasks[t].state
                      /\ tasks[t].exit_code = SUCCESS =>
                             latest_successful_state = tasks[t].state
                      /\ Len(calls) = i - 1
                      /\ \A k \in 1..Len(calls) :
                             /\ calls[k].listener = k
                             /\ calls[k].exit_code = tasks[t].exit_code
                      /\ listener_calls' # listener_calls =>
                             /\ listener_calls' = Append(listener_calls,
                                    [task |-> t, listener |-> i,
                                     exit_code |-> tasks[t].exit_code])
                             /\ tasks'[t].pc = "notify" /\ tasks'[t].i = i + 1
                      /\ tasks'[t].pc = "done" =>
                             /\ i = Len(state_update_notify) + 1
                             /\ listener_calls' = listener_calls
                      /\ tasks'[t].pc = "raised" =>
                             /\ i <= Len(state_update_notify)
                             /\ call_listener(state_update_notify[i], tasks[t].exit_code,
                                              tasks[t].state).exc # "None"
                             /\ listener_calls' = listener_calls
          ]_vars
    /\ [][ (\A t \in 1..Len(tasks) : tasks[t].pc # "notify") =>
               listener_calls' = listener_calls ]_vars
    /\ [](\A k \in 1..Len(listener_calls) :
             listener_calls[k].exit_code = SUCCESS =>
                 current_solution(get_latest_state(latest_successful_state)).status
                     = _SUCCESS)

\* a recompute that ended in SUCCESS has called two listeners, and both have
\* returned
C22_Witness ==
    /\ Len(state_update_notify) = 2
    /\ Len(tasks) >= 1
    /\ tasks[1].pc = "done"
    /\ tasks[1].exit_code = SUCCESS
    /\ Len(listener_calls) = 2
    /\ listener_calls[1] = [task |-> 1, listener |-> 1, exit_code |-> SUCCESS]
    /\ listener_calls[2] = [task |-> 1, listener |-> 2, exit_code |-> SUCCESS]

\* C23: after the construction of the Workflow and after every return of
\* request_update_edges, the index mapping of the label cache is the mapping
\* from edge to index of the feature cache, the third of the four values that
\* a snapshot reads from get_edges_and_features(); and the mapping changes
\* only under the workflow lock held by request_update_edges.
C23_MappingIsTheCacheMapping ==
    /\ [](edges_pc = "idle" =>
             /\ edge_index_mapping = get_edges_and_features(edge_feature_cache)[3]
             /\ edge_index_mapping.kind = "dict")
    /\ [][ edge_index_mapping' # edge_index_mapping =>
               lock = "edges" /\ lock' = "free" ]_vars

\* C24: update_edge_index_mapping(mapping) makes `mapping` the index mapping of
\* the cache and changes nothing else: the map from index to label is after
\* the call what it was before, whatever the cache held and whatever the new
\* mapping is.
C24_MappingUpdateKeepsLabels ==
    /\ [](\A mapping \in Mappings \cup {PyNone} :
             update_edge_index_mapping(mapping) = mapping)
    /\ [][ (cache_ret'.op = "update_edge_index_mapping"
              \/ edge_index_mapping' # edge_index_mapping) =>
               /\ edge_label_map' = edge_label_map
               /\ edge_index_mapping' \in Mappings
               /\ cache_lock' = cache_lock
          ]_vars

\* the mapping was replaced by the dict of DatasetA, of two edges, while the
\* cache holds a label under an index that this mapping does not give
C24_Witness ==
    /\ cache_ret.op = "update_edge_index_mapping"
    /\ edge_index_mapping = DatasetA.edge_index_mapping
    /\ \E index \in DOMAIN edge_label_map :
           \A e \in DOMAIN edge_index_mapping.map :
               Float(edge_index_mapping.map[e]) # index

\* C25: a label recorded for an edge that the current mapping no longer holds
\* is not used.  In every state of the cache with a dict mapping: if a label
\* is recorded for an edge e of the mapping, under an index that held no label,
\* and the mapping is then replaced by one that does not hold e, then
\* get_sample_and_label_arrays on the features of the new mapping returns
\* what it returns without that label: the label of e is not handed out with
\* the features of the edge that now has the index.
C25_StaleLabelsNotUsed ==
    edge_index_mapping.kind = "dict" =>
        \A e \in DOMAIN edge_index_mapping.map, l \in Labels, d \in Datasets :
            LET index    == getitem(edge_index_mapping, e)
                recorded == update_labels(edge_index_mapping, edge_label_map,
                                          <<e>>, <<l>>, numpy_strict).map
                fresh    == update_edge_index_mapping(d.edge_index_mapping)
            IN  (index \notin DOMAIN edge_label_map
                   /\ contains(fresh, e, numpy_strict) = "False") =>
                    get_sample_and_label_arrays(recorded, d.edge_features) =
                        get_sample_and_label_arrays(edge_label_map, d.edge_features)

\* C26: an edge is an unordered pair.  In every state of the Workflow, for
\* every edge (a, b) that the feature cache holds and every label, a
\* submission of the label for (a, b) and a submission for (b, a) are both
\* applied, neither is skipped nor raises, and both leave the label map the
\* same, the label being recorded under one index.
C26_EdgeIsUnorderedPair ==
    \A k \in 1..Len(get_edges_and_features(edge_feature_cache)[1]), l \in Labels :
        LET e   == get_edges_and_features(edge_feature_cache)[1][k]
            ab  == update_labels(edge_index_mapping, edge_label_map,
                                 << <<e[1], e[2]>> >>, <<l>>, numpy_strict)
            ba  == update_labels(edge_index_mapping, edge_label_map,
                                 << <<e[2], e[1]>> >>, <<l>>, numpy_strict)
        IN  edges_pc = "idle" =>
                /\ ab.exc = "None" /\ ba.exc = "None"
                /\ ab.skipped = 0 /\ ba.skipped = 0
                /\ ab.map = ba.map
                /\ \E index \in DOMAIN ab.map :
                       /\ ab.map[index] = l
                       /\ \A other \in DOMAIN ab.map \ {index} :
                              other \in DOMAIN edge_label_map
                                 /\ ab.map[other] = edge_label_map[other]

\* C27: as long as stop() is not called, every task that was put on the queue
\* is eventually taken, executed and notified to the listeners: the call of
\* _update_state returns, whatever label submissions come in between.
C27_EveryTaskCompletes ==
    \A t \in 1..MaxRequests :
        (Len(tasks) >= t) ~> (~_is_running \/ (Len(tasks) >= t /\ tasks[t].pc = "done"))

\* C28: a listener that raises is not caught.  The step in which the listener
\* at hand raises ends the call of _update_state with that exception: the
\* state of the recompute is installed by then and stays installed, the
\* listeners after the failing one have not been invoked and are not invoked
\* later, the workflow lock is released, and the worker thread, whose loop
\* catches queue.Empty only, ends: it takes no task any more.
C28_ListenerFailurePropagates ==
    /\ [][ \A t \in 1..Len(tasks) :
              (tasks[t].pc = "notify" /\ tasks[t].i <= Len(state_update_notify)
                 /\ tasks'[t] # tasks[t]) =>
                  LET i == tasks[t].i
                  IN  /\ state_update_notify[i] = "raises" <=> tasks'[t].pc = "raised"
                      /\ tasks'[t].pc = "raised" =>
                             /\ latest_state = tasks[t].state
                             /\ latest_state' = latest_state
                             /\ tasks[t].exit_code = SUCCESS =>
                                    /\ latest_successful_state = tasks[t].state
                                    /\ latest_successful_state' = latest_successful_state
                             /\ lock = "worker" /\ lock' = "free"
                             /\ worker_pc = "task" /\ worker_pc' = "dead"
                             /\ listener_calls' = listener_calls
                             /\ \A k \in 1..Len(listener_calls) :
                                    listener_calls[k].task = t =>
                                        listener_calls[k].listener < i
          ]_vars
    /\ [][ worker_pc = "dead" =>
               /\ worker_pc' = "dead"
               /\ listener_calls' = listener_calls
               /\ update_queue' \in {update_queue} \cup
                                    {Append(update_queue, t) : t \in 1..MaxRequests}
               /\ \A t \in 1..Len(tasks) : tasks'[t] = tasks[t]
          ]_vars

\* the first of two listeners has raised on a recompute that ended in SUCCESS:
\* the state is installed, no listener has returned, the lock is free and the
\* worker thread has ended with a task left in its queue
C28_Witness ==
    /\ state_update_notify = <<"raises", "two_args">>
    /\ Len(tasks) = 2
    /\ tasks[1].pc = "raised"
    /\ tasks[1].exit_code = SUCCESS
    /\ latest_successful_state # PyNone
    /\ latest_state = latest_successful_state
    /\ listener_calls = <<>>
    /\ lock = "free"
    /\ worker_pc = "dead"
    /\ tasks[2].pc = "queued"

\* C29: one label submission is seen whole or not at all by a snapshot.  While
\* a call of request_set_edge_labels is between its first and its last pair it
\* holds the workflow lock and no recompute is inside its snapshot; the label
\* map changes in the steps of such a call only; and the step that reads the
\* labels for a snapshot is taken when no submission is under way, and reads
\* the label map as the submissions that have returned left it.
C29_SubmissionAtomicForSnapshots ==
    /\ [](labels_call.pc # "idle" =>
             /\ lock = "labels"
             /\ \A t \in 1..Len(tasks) : tasks[t].pc # "snapshot_labels")
    /\ [][ edge_label_map' # edge_label_map =>
               /\ labels_call.pc = "loop" /\ labels_call'.pc \in {"loop", "return"}
               /\ lock = "labels" /\ lock' = "labels"
               /\ \A t \in 1..Len(tasks) : tasks'[t] = tasks[t]
          ]_vars
    /\ [][ \A t \in 1..Len(tasks) :
              (tasks[t].pc = "snapshot_labels" /\ tasks'[t] # tasks[t]) =>
                  /\ labels_call.pc = "idle" /\ labels_call'.pc = "idle"
                  /\ edge_label_map' = edge_label_map
                  /\ tasks'[t].pc = "compute" =>
                         tasks'[t].state.labeled_samples.labels =
                             get_sample_and_label_arrays(
                                 edge_label_map, tasks[t].state.edge_features).labels
          ]_vars

\* a submission of two pairs has recorded the first and not yet the second,
\* while a recompute that the worker has taken waits for the lock to take its
\* snapshot
C29_Witness ==
    /\ labels_call.pc = "loop"
    /\ labels_call.n = 2
    /\ Len(labels_call.pending) = 1
    /\ edge_label_map # EmptyMap
    /\ lock = "labels"
    /\ \E t \in 1..Len(tasks) : tasks[t].pc = "snapshot"

====
